---- MODULE Spec2Model ----
(***************************************************************************)
(* Model of pkg/controller/jobs/generic/config.go: the ConfigManager that  *)
(* loads MultiKueueExternalFramework configurations, keys them by the      *)
(* string form of the GroupVersionKind parsed from their Name, and answers *)
(* GetAdapter / GetAllAdapters.                                            *)
(*                                                                         *)
(* Strings are sequences of one-character strings, so that parsing a Name  *)
(* and printing a GroupVersionKind are computed character by character.    *)
(* A Go pointer (and an error value) is a sequence of length 0 (nil) or 1. *)
(***************************************************************************)
EXTENDS Naturals, Sequences, FiniteSets

VARIABLES
    configs,   \* cm.configs: map from gvk.String() to the stored configuration
    pc,        \* "idle", or "loop" while LoadConfigurations is in its for loop,
               \* or "fatal" once the Go runtime has aborted the process
    batch,     \* the argument of the current / most recent LoadConfigurations
    idx,       \* number of entries of batch the loop has consumed
    errors,    \* the local slice `errors` of LoadConfigurations
    klog,      \* diagnostics emitted since the start of the most recent
               \* LoadConfigurations or GetAllAdapters call
    ret,       \* the value returned by the most recent call: [op, arg, val],
               \* arg being the identifier GetAdapter was given; op is
               \* "pending" while LoadConfigurations is running
    before,    \* history: cm.configs when the most recent Load was called
    repeat,    \* history: the most recent Load got the same batch as the
               \* Load completed right before it
    loaded     \* history: some LoadConfigurations call has returned

vars == <<configs, pc, batch, idx, errors, klog, ret, before, repeat, loaded>>

----------------------------------------------------------------------------
(* Bounds of the model.                                                    *)

\* longest batch handed to LoadConfigurations under Spec
MaxBatch == 3

\* longest Name enumerated over Chars under SpecNames
MaxNameLen == 3

----------------------------------------------------------------------------
(* Strings.                                                                *)

\* all strings over alphabet cs of length at most n
RECURSIVE StringsUpTo(_, _)
StringsUpTo(cs, n) ==
    IF n = 0 THEN {<<>>}
    ELSE LET shorter == StringsUpTo(cs, n - 1)
         IN  shorter \cup {Append(s, c) : s \in shorter, c \in cs}

\* strings.Count(s, "."): the positions of s holding a dot
Dots(s) == {i \in 1..Len(s) : s[i] = "."}

\* the least element of a non-empty set of positions
First(S) == CHOOSE i \in S : \A j \in S : i <= j

----------------------------------------------------------------------------
(* k8s.io/apimachinery/pkg/runtime/schema, as called by config.go.         *)

\* ParseKindArg, with one dot enough: "Kind.version" gets the empty Group
ParseKindArgOneDot(arg) ==
    IF Cardinality(Dots(arg)) >= 1
    THEN LET d1 == First(Dots(arg))
             d2 == IF Cardinality(Dots(arg)) >= 2
                   THEN First(Dots(arg) \ {d1}) ELSE Len(arg) + 1
         IN  <<[Group   |-> SubSeq(arg, d2 + 1, Len(arg)),
                Version |-> SubSeq(arg, d1 + 1, d2 - 1),
                Kind    |-> SubSeq(arg, 1, d1 - 1)]>>
    ELSE <<>>

\* schema.ParseKindArg(arg), first result: nil unless strings.Count(arg, ".")
\* is at least 2; else strings.SplitN(arg, ".", 3) gives Kind, Version, Group
ParseKindArg(arg) ==
    IF Cardinality(Dots(arg)) >= 2
    THEN LET d1 == First(Dots(arg))
             d2 == First(Dots(arg) \ {d1})
         IN  <<[Group   |-> SubSeq(arg, d2 + 1, Len(arg)),
                Version |-> SubSeq(arg, d1 + 1, d2 - 1),
                Kind    |-> SubSeq(arg, 1, d1 - 1)]>>
    ELSE <<>>

\* the literal ", Kind=" of GroupVersionKind.String
KindSep == <<",", " ", "K", "i", "n", "d", "=">>

\* GroupVersionKind.String(): Group + "/" + Version + ", Kind=" + Kind
GVKString(gvk) == gvk.Group \o <<"/">> \o gvk.Version \o KindSep \o gvk.Kind

----------------------------------------------------------------------------
(* Go maps.                                                                *)

\* make(map[string]configapi.MultiKueueExternalFramework)
EmptyMap == [k \in {} |-> <<>>]

\* m[key] = value, with a key already present left alone
MapPutFirstWins(m, key, value) ==
    [k \in DOMAIN m \cup {key} |-> IF k \in DOMAIN m THEN m[k] ELSE value]

\* m[key] = value, with the other keys dropped
MapPutAlone(m, key, value) == [k \in {key} |-> value]

\* m[key] = value
MapPut(m, key, value) ==
    [k \in DOMAIN m \cup {key} |-> IF k = key THEN value ELSE m[k]]

\* the orders in which `range m` may visit the keys of m
RangeOrders(m) ==
    {o \in [1..Cardinality(DOMAIN m) -> DOMAIN m] :
        \A i, j \in DOMAIN o : i # j => o[i] # o[j]}

----------------------------------------------------------------------------
(* Inputs.                                                                 *)

\* a configapi.MultiKueueExternalFramework: this file reads its Name only
Config(name) == [Name |-> name]

PodV1Dot  == <<"P", "o", "d", ".", "v", "1", ".">>
PodV1     == <<"P", "o", "d", ".", "v", "1">>
Pod       == <<"P", "o", "d">>
JobV1Batch == <<"J", "o", "b", ".", "v", "1", ".", "b", "a", "t", "c", "h">>
DotDot    == <<".", ".">>
DotV1Batch == <<".", "v", "1", ".", "b", "a", "t", "c", "h">>
\* Kind "K", Version "/", Group ""
KSlashDot == <<"K", ".", "/", ".">>
\* Kind "K", Version "", Group "/"
KDotSlash == <<"K", ".", ".", "/">>

\* the Names of the batches of Spec: empty, malformed, well-formed, and two
\* well-formed Names of different identifiers
Names == {<<>>, PodV1, PodV1Dot, KSlashDot, KDotSlash}

\* the Names of the batches of SpecNames
Chars == {"K", ".", "/"}
WideNames ==
    StringsUpTo(Chars, MaxNameLen)
        \cup {Pod, PodV1, PodV1Dot, JobV1Batch, DotDot, DotV1Batch}

\* all batches over the Names ns of length at most n
RECURSIVE BatchesUpTo(_, _)
BatchesUpTo(ns, n) ==
    IF n = 0 THEN {<<>>}
    ELSE LET shorter == BatchesUpTo(ns, n - 1)
         IN  shorter \cup {Append(b, Config(name)) : b \in shorter, name \in ns}

Batches == BatchesUpTo(Names, MaxBatch)
NameBatches == BatchesUpTo(WideNames, 1)

\* the identifiers callers pass to GetAdapter
GVKs == {ParseKindArg(n)[1] : n \in {m \in Names : ParseKindArg(m) # <<>>}}

----------------------------------------------------------------------------
(* ConfigManager.                                                          *)

\* validateConfig, with the parse of lines 107-110 left out
validateConfigEmptyOnly(config) ==
    IF config.Name = <<>> THEN <<"name is required">> ELSE <<>>

\* validateConfig: nil, or the error
validateConfig(config) ==
    IF config.Name = <<>> THEN <<"name is required">>
    ELSE IF ParseKindArg(config.Name) = <<>> THEN <<"invalid GVK format">>
    ELSE <<>>

\* NewConfigManager
Init ==
    /\ configs = EmptyMap
    /\ pc = "idle"
    /\ batch = <<>>
    /\ idx = 0
    /\ errors = <<>>
    /\ klog = <<>>
    /\ ret = [op |-> "NewConfigManager", arg |-> <<>>, val |-> <<>>]
    /\ before = EmptyMap
    /\ repeat = FALSE
    /\ loaded = FALSE

\* line 42, with the map of the earlier call kept
KeepConfigs == configs

\* line 42: cm.configs = make(map[string]configapi.MultiKueueExternalFramework)
ResetConfigs == EmptyMap

\* line 43, with the errors of the earlier call kept
KeepErrors == errors

\* line 43: var errors []error
ResetErrors == <<>>

\* LoadConfigurations, lines 41-43: the call with a batch of bs
LoadConfigurations(bs) ==
    /\ pc = "idle"
    /\ \E b \in bs :
        /\ batch' = b
        /\ repeat' = (loaded /\ b = batch)
    /\ before' = configs
    /\ configs' = ResetConfigs
    /\ errors' = ResetErrors
    /\ klog' = <<>>
    /\ idx' = 0
    /\ pc' = "loop"
    /\ ret' = [op |-> "pending", arg |-> <<>>, val |-> <<>>]
    /\ UNCHANGED loaded

\* lines 49 and 58, leaving the loop at a rejected entry
Break == Len(batch)

\* lines 49 and 58: `continue`, the loop goes on with the next entry
Continue == idx + 1

\* line 62, with the raw Name as the key
ConfigKeyRawName(config, gvk) == config.Name

\* line 62: the key gvk.String() of cm.configs[gvk.String()] = config
ConfigKey(config, gvk) == GVKString(gvk)

\* LoadConfigurations, lines 45-63: one iteration of the loop
LoadLoop ==
    /\ pc = "loop"
    /\ idx < Len(batch)
    /\ LET config == batch[idx + 1]
           err    == validateConfig(config)
           gvk    == ParseKindArg(config.Name)
       IN  IF err # <<>>
           THEN /\ klog' = Append(klog, [name |-> config.Name, err |-> err[1]])
                /\ errors' = Append(errors, [name |-> config.Name, err |-> err[1]])
                /\ idx' = Continue
                /\ UNCHANGED configs
           ELSE IF gvk = <<>>
           THEN /\ klog' = Append(klog, [name |-> config.Name,
                                         err |-> "invalid GVK format in configuration"])
                /\ errors' = Append(errors, [name |-> config.Name,
                                             err |-> "invalid GVK format in configuration"])
                /\ idx' = Continue
                /\ UNCHANGED configs
           ELSE /\ configs' = MapPut(configs, ConfigKey(config, gvk[1]), config)
                /\ idx' = idx + 1
                /\ UNCHANGED <<klog, errors>>
    /\ UNCHANGED <<pc, batch, ret, before, repeat, loaded>>

\* lines 65-68, with the comparison off by one
LoadErrorOverOne(errs) == IF Len(errs) > 1 THEN <<Len(errs)>> ELSE <<>>

\* lines 65-68: nil, or the error carrying len(errors)
LoadError(errs) == IF Len(errs) > 0 THEN <<Len(errs)>> ELSE <<>>

\* LoadConfigurations, lines 65-68: the return
LoadReturn ==
    /\ pc = "loop"
    /\ idx = Len(batch)
    /\ ret' = [op  |-> "LoadConfigurations",
               arg |-> <<>>,
               val |-> LoadError(errors)]
    /\ pc' = "idle"
    /\ loaded' = TRUE
    /\ UNCHANGED <<configs, batch, idx, errors, klog, before, repeat>>

\* lines 73-80, with the test of `exists` left out
AdapterUnchecked(m, gvk) == <<[gvk |-> gvk]>>

\* the value GetAdapter(gvk) returns on the map m: nil, or the adapter
Adapter(m, gvk) ==
    IF GVKString(gvk) \notin DOMAIN m THEN <<>> ELSE <<[gvk |-> gvk]>>

\* GetAdapter, with a miss cached in the map under the looked-up key
GetAdapterInserting(gs) ==
    /\ pc = "idle"
    /\ \E gvk \in gs :
        /\ ret' = [op |-> "GetAdapter", arg |-> gvk, val |-> Adapter(configs, gvk)]
        /\ configs' = IF Adapter(configs, gvk) = <<>>
                      THEN MapPut(configs, GVKString(gvk), Config(<<>>))
                      ELSE configs
    /\ UNCHANGED <<pc, batch, idx, errors, klog, before, repeat, loaded>>

\* GetAdapter, called with an identifier of gs
GetAdapter(gs) ==
    /\ pc = "idle"
    /\ \E gvk \in gs :
        ret' = [op |-> "GetAdapter", arg |-> gvk, val |-> Adapter(configs, gvk)]
    /\ UNCHANGED <<configs, pc, batch, idx, errors, klog, before, repeat, loaded>>

\* the slice GetAllAdapters builds on the map m visited in order o, from
\* the i-th visited key on: lines 86-96
RECURSIVE AdaptersFrom(_, _, _)
AdaptersFrom(m, o, i) ==
    IF i > Len(o) THEN <<>>
    ELSE LET gvk == ParseKindArg(m[o[i]].Name)
         IN  IF gvk = <<>> THEN AdaptersFrom(m, o, i + 1)
             ELSE <<[gvk |-> gvk[1]]>> \o AdaptersFrom(m, o, i + 1)

\* the diagnostics GetAllAdapters emits on that visit: line 90
RECURSIVE AdaptersLogFrom(_, _, _)
AdaptersLogFrom(m, o, i) ==
    IF i > Len(o) THEN <<>>
    ELSE LET gvk == ParseKindArg(m[o[i]].Name)
         IN  IF gvk = <<>>
             THEN <<[name |-> m[o[i]].Name, err |-> "Failed to parse GVK string"]>>
                      \o AdaptersLogFrom(m, o, i + 1)
             ELSE AdaptersLogFrom(m, o, i + 1)

\* GetAllAdapters
GetAllAdapters ==
    /\ pc = "idle"
    /\ \E o \in RangeOrders(configs) :
        /\ ret' = [op |-> "GetAllAdapters", arg |-> <<>>, val |-> AdaptersFrom(configs, o, 1)]
        /\ klog' = AdaptersLogFrom(configs, o, 1)
    /\ UNCHANGED <<configs, pc, batch, idx, errors, before, repeat, loaded>>

Next ==
    \/ LoadConfigurations(Batches)
    \/ LoadLoop
    \/ LoadReturn
    \/ GetAdapter(GVKs)
    \/ GetAllAdapters

Spec == Init /\ [][Next]_vars

NextNames ==
    \/ LoadConfigurations(NameBatches)
    \/ LoadLoop
    \/ LoadReturn
    \/ GetAdapter(GVKs)
    \/ GetAllAdapters

SpecNames == Init /\ [][NextNames]_vars

(* Callers that do not serialize: the file takes no lock, so GetAdapter and *)
(* GetAllAdapters may run between two steps of a LoadConfigurations. The    *)
(* unsynchronized access to the map being written is a data race: the read  *)
(* either goes through on the map as it is, or the Go runtime detects the   *)
(* concurrent map read and map write and aborts the process.                *)

\* the outcomes of a map read racing with LoadConfigurations
RaceOutcomes == {"read", "fatal"}

\* GetAdapter, lines 72-81, running while LoadConfigurations is in its loop
GetAdapterRacing(gs) ==
    /\ pc = "loop"
    /\ \E gvk \in gs, outcome \in RaceOutcomes :
        IF outcome = "fatal"
        THEN /\ pc' = "fatal"
             /\ UNCHANGED ret
        ELSE /\ ret' = [op |-> "GetAdapter", arg |-> gvk,
                        val |-> Adapter(configs, gvk)]
             /\ UNCHANGED pc
    /\ UNCHANGED <<configs, batch, idx, errors, klog, before, repeat, loaded>>

\* GetAllAdapters, lines 84-98, running while LoadConfigurations is in its loop
GetAllAdaptersRacing ==
    /\ pc = "loop"
    /\ \E o \in RangeOrders(configs), outcome \in RaceOutcomes :
        IF outcome = "fatal"
        THEN /\ pc' = "fatal"
             /\ UNCHANGED <<ret, klog>>
        ELSE /\ ret' = [op |-> "GetAllAdapters", arg |-> <<>>,
                        val |-> AdaptersFrom(configs, o, 1)]
             /\ klog' = klog \o AdaptersLogFrom(configs, o, 1)
             /\ UNCHANGED pc
    /\ UNCHANGED <<configs, batch, idx, errors, before, repeat, loaded>>

NextRacing ==
    \/ LoadConfigurations(Batches)
    \/ LoadLoop
    \/ LoadReturn
    \/ GetAdapter(GVKs)
    \/ GetAllAdapters
    \/ GetAdapterRacing(GVKs)
    \/ GetAllAdaptersRacing

SpecRacing == Init /\ [][NextRacing]_vars

----------------------------------------------------------------------------
(* Vocabulary of the properties.                                           *)

\* the positions of batch b whose Name is empty or malformed
Rejected(b) ==
    {i \in 1..Len(b) : b[i].Name = <<>> \/ ParseKindArg(b[i].Name) = <<>>}

\* the positions of batch b whose Name parses
Accepted(b) == (1..Len(b)) \ Rejected(b)

\* the identifier and the canonical string of an entry whose Name parses
IdOf(config) == ParseKindArg(config.Name)[1]
KeyOf(config) == GVKString(IdOf(config))

\* the canonical strings the batch b produces
ProducedKeys(b) == {KeyOf(b[i]) : i \in Accepted(b)}

\* the last accepted position of b producing the canonical string k
LastFor(b, k) ==
    CHOOSE i \in Accepted(b) :
        /\ KeyOf(b[i]) = k
        /\ \A j \in Accepted(b) : KeyOf(b[j]) = k => j <= i

\* the elements of a sequence
Range(s) == {s[i] : i \in DOMAIN s}

\* between calls, some Load having returned
Settled == pc = "idle" /\ loaded

\* a Load has just returned
LoadReturned == pc = "idle" /\ ret.op = "LoadConfigurations"

\* every batch entry parses and no two entries produce the same canonical string
UniqueValid(b) ==
    /\ Rejected(b) = {}
    /\ \A i, j \in 1..Len(b) : i # j => KeyOf(b[i]) # KeyOf(b[j])

----------------------------------------------------------------------------
(* Properties.                                                             *)

C2_RejectedSkippedOthersStored ==
    (Settled /\ Rejected(batch) # {}) =>
        /\ LoadReturned => ret.val # <<>>
        /\ DOMAIN configs = ProducedKeys(batch)
        /\ \A k \in DOMAIN configs : configs[k] = batch[LastFor(batch, k)]
        /\ \A i \in Rejected(batch) : \A k \in DOMAIN configs : configs[k] # batch[i]

\* C2 witness: a rejected entry in the middle of a batch whose first and last
\* entries were both stored, under different keys.
C2_Witness ==
    /\ LoadReturned
    /\ Len(batch) = 3
    /\ Rejected(batch) = {2}
    /\ KeyOf(batch[1]) # KeyOf(batch[3])
    /\ configs[KeyOf(batch[1])] = batch[1]
    /\ configs[KeyOf(batch[3])] = batch[3]
    /\ ret.val # <<>>

\* C3: Load returns an error exactly when the batch has a rejected entry,
\* and the error carries the number of rejected entries.
C3_ErrorCountsRejected ==
    LoadReturned =>
        /\ ret.val # <<>> <=> Rejected(batch) # {}
        /\ ret.val # <<>> => ret.val[1] = Cardinality(Rejected(batch))

\* C3 witness: a Load returned the count 2 for a batch that also had an
\* accepted entry.
C3_Witness ==
    /\ LoadReturned
    /\ ret.val = <<2>>
    /\ Accepted(batch) # {}

\* C4: after the Load of a batch of valid Names with pairwise different
\* canonical strings, Load returned nil and GetAllAdapters yields one adapter
\* per entry: as many as entries, carrying the identifiers parsed from the
\* Names, none twice.
C4_OneAdapterPerEntry ==
    (Settled /\ UniqueValid(batch)) =>
        /\ LoadReturned => ret.val = <<>>
        /\ \A o \in RangeOrders(configs) :
            LET all == AdaptersFrom(configs, o, 1)
            IN  /\ Len(all) = Len(batch)
                /\ {a.gvk : a \in Range(all)} = {IdOf(e) : e \in Range(batch)}
                /\ \A i, j \in DOMAIN all : i # j => all[i].gvk # all[j].gvk
        /\ ret.op = "GetAllAdapters" =>
            /\ Len(ret.val) = Len(batch)
            /\ {a.gvk : a \in Range(ret.val)} = {IdOf(e) : e \in Range(batch)}

\* C4 witness: GetAllAdapters returned two adapters after such a batch of two.
C4_Witness ==
    /\ Settled
    /\ UniqueValid(batch)
    /\ Len(batch) = 2
    /\ ret.op = "GetAllAdapters"
    /\ Len(ret.val) = 2

\* C5: when entries of a batch produce the same canonical string, the
\* mapping holds one entry under it, the one at the latest position, and the
\* Load does not count this as a failure.
C5_LastWriteWins ==
    Settled =>
        /\ \A i \in Accepted(batch) :
            /\ KeyOf(batch[i]) \in DOMAIN configs
            /\ configs[KeyOf(batch[i])] = batch[LastFor(batch, KeyOf(batch[i]))]
        /\ (LoadReturned /\ Rejected(batch) = {}) => ret.val = <<>>

\* C5 witness: two different entries of a batch produced the same canonical
\* string, the later one is stored and Load returned nil.
C5_Witness ==
    /\ LoadReturned
    /\ ret.val = <<>>
    /\ \E i, j \in Accepted(batch) :
        /\ i < j
        /\ batch[i] # batch[j]
        /\ KeyOf(batch[i]) = KeyOf(batch[j])
        /\ configs[KeyOf(batch[i])] = batch[j]

\* the identifiers the accepted entries of batch b parse to
ProducedIds(b) == {IdOf(b[i]) : i \in Accepted(b)}

\* C6: GetAdapter on an identifier that no accepted Name of the most recent
\* batch parses to returns nil.
C6_NeverLoadedIsAbsent ==
    (Settled /\ ret.op = "GetAdapter" /\ ret.arg \notin ProducedIds(batch)) =>
        ret.val = <<>>

\* C7: for every accepted entry of the most recent batch, also when other
\* entries were rejected, GetAdapter on the identifier its Name parses to
\* returns an adapter whose identifier has the same canonical string.
C7_RoundTrip ==
    Settled =>
        /\ \A id \in ProducedIds(batch) :
            /\ Adapter(configs, id) # <<>>
            /\ GVKString(Adapter(configs, id)[1].gvk) = GVKString(id)
        /\ (ret.op = "GetAdapter" /\ ret.arg \in ProducedIds(batch)) =>
            /\ ret.val # <<>>
            /\ GVKString(ret.val[1].gvk) = GVKString(ret.arg)

\* C7 witness: GetAdapter returned an adapter for an accepted entry of a
\* batch that also had a rejected entry.
C7_Witness ==
    /\ Settled
    /\ ret.op = "GetAdapter"
    /\ ret.arg \in ProducedIds(batch)
    /\ ret.val = <<[gvk |-> ret.arg]>>
    /\ Rejected(batch) # {}

\* C8: the canonical string identifies the triple: identifiers produced by
\* the batch, and an identifier passed to GetAdapter, are equal exactly when
\* their canonical strings are equal, so the adapter GetAdapter finds under
\* a key belongs to the identifier stored there.
C8_KeyIdentifiesTriple ==
    Settled =>
        /\ \A i, j \in Accepted(batch) :
            IdOf(batch[i]) = IdOf(batch[j]) <=> KeyOf(batch[i]) = KeyOf(batch[j])
        /\ ret.op = "GetAdapter" =>
            \A k \in DOMAIN configs :
                ret.arg = IdOf(configs[k]) <=> GVKString(ret.arg) = k

\* the key "/v1, Kind=Pod"
PodKey == <<"/", "v", "1", ",", " ", "K", "i", "n", "d", "=", "P", "o", "d">>

\* the positions of batch b named by one of the Names ns
Named(b, ns) == {i \in 1..Len(b) : b[i].Name \in ns}

\* the count a Load result carries, 0 for nil
ErrCount(val) == IF val = <<>> THEN 0 ELSE val[1]

\* C9 as stated: an entry named "Pod.v1.", "Pod.v1" or "Pod" is stored and
\* adds nothing to the error count.
C9_ShortFormsAccepted ==
    LoadReturned =>
        LET short == Named(batch, {PodV1Dot, PodV1, Pod})
        IN  /\ \A i \in short : \E k \in DOMAIN configs : configs[k] = batch[i]
            /\ ErrCount(ret.val) <= Len(batch) - Cardinality(short)

\* C9 as amended: an entry named "Pod.v1." is stored, under "/v1, Kind=Pod",
\* and adds nothing to the error count; an entry named "Pod.v1" or "Pod" is
\* not stored and is counted as an error.
C9_TrailingDotFormAccepted ==
    LoadReturned =>
        LET dotted   == Named(batch, {PodV1Dot})
            dotless  == Named(batch, {PodV1, Pod})
        IN  /\ dotted # {} =>
                /\ PodKey \in DOMAIN configs
                /\ configs[PodKey] = Config(PodV1Dot)
            /\ ErrCount(ret.val) <= Len(batch) - Cardinality(dotted)
            /\ \A i \in dotless : \A k \in DOMAIN configs : configs[k] # batch[i]
            /\ ErrCount(ret.val) >= Cardinality(dotless)

\* C9 witness: the Load of the batch holding "Pod.v1." alone returned nil
\* and stored the entry.
C9_Witness ==
    /\ LoadReturned
    /\ batch = <<Config(PodV1Dot)>>
    /\ ret.val = <<>>
    /\ DOMAIN configs = {PodKey}

\* the slices GetAllAdapters may return on the map m
Listings(m) == {AdaptersFrom(m, o, 1) : o \in RangeOrders(m)}

\* C10: a Load of a valid batch returns nil, and when it repeats the batch
\* of the Load right before it, it leaves the mapping, and what GetAdapter
\* and GetAllAdapters answer, as that earlier Load left them.
C10_LoadIdempotent ==
    /\ (LoadReturned /\ Rejected(batch) = {}) => ret.val = <<>>
    /\ (Settled /\ repeat /\ Rejected(batch) = {}) =>
        /\ configs = before
        /\ \A gvk \in GVKs : Adapter(configs, gvk) = Adapter(before, gvk)
        /\ Listings(configs) = Listings(before)

\* C10 witness: a valid batch of two entries was loaded twice in a row.
C10_Witness ==
    /\ LoadReturned
    /\ repeat
    /\ Rejected(batch) = {}
    /\ Len(batch) >= 2
    /\ Cardinality(DOMAIN configs) = 2
    /\ ret.val = <<>>

\* C11 as stated: a GetAdapter or GetAllAdapters that runs while a Load is
\* in progress never reports absent an identifier whose key the mapping
\* held before the Load and holds after it.
C11_ReadsDuringLoadSeeWholeMap ==
    pc = "loop" =>
        \A k \in DOMAIN before \cap ProducedKeys(batch) :
            /\ (ret.op = "GetAdapter" /\ GVKString(ret.arg) = k) => ret.val # <<>>
            /\ ret.op = "GetAllAdapters" =>
                \E a \in Range(ret.val) : GVKString(a.gvk) = k

\* C11 as amended: a GetAdapter or GetAllAdapters that runs while no Load is
\* in progress observes the complete mapping of the last completed Load: an
\* identifier is present exactly when the batch produced its key, and the
\* listing has one adapter for every produced key.
C11_ReadsBetweenLoadsSeeWholeMap ==
    (pc = "idle" /\ loaded) =>
        /\ ret.op = "GetAdapter" =>
            (ret.val # <<>> <=> GVKString(ret.arg) \in ProducedKeys(batch))
        /\ ret.op = "GetAllAdapters" =>
            {GVKString(a.gvk) : a \in Range(ret.val)} = ProducedKeys(batch)

\* C11 witness: between Loads, GetAdapter found an identifier whose key was
\* in the mapping before the last Load of a batch of several entries and is
\* in it after.
C11_Witness ==
    /\ pc = "idle"
    /\ ret.op = "GetAdapter"
    /\ ret.val # <<>>
    /\ GVKString(ret.arg) \in DOMAIN before \cap ProducedKeys(batch)
    /\ Len(batch) >= 2
    /\ idx = Len(batch)

\* C12: GetAdapter and GetAllAdapters are pure reads: a step in which one
\* of them returns leaves the mapping as it was, and with it what every
\* GetAdapter and GetAllAdapters answers afterwards.
C12_ReadsArePure ==
    [][(pc = "idle" /\ ret'.op \in {"GetAdapter", "GetAllAdapters"}) =>
          /\ configs' = configs
          /\ pc' = "idle"
          /\ \A gvk \in GVKs : Adapter(configs', gvk) = Adapter(configs, gvk)
          /\ Listings(configs') = Listings(configs)]_vars

\* C12 witness: after a GetAdapter that returned nil, with the mapping still
\* holding what the last batch stored.
C12_Witness ==
    /\ pc = "idle"
    /\ ret.op = "GetAdapter"
    /\ ret.val = <<>>
    /\ configs # EmptyMap
    /\ DOMAIN configs = ProducedKeys(batch)

\* C13: between operations every key k of the mapping holds an entry whose
\* Name is non-empty and parses, k being the canonical string of the parsed
\* identifier (not the empty string, not the raw Name); so GetAllAdapters
\* returns as many adapters as the mapping has keys and never takes its
\* skip branch.
C13_KeysAreCanonicalStrings ==
    pc = "idle" =>
        /\ \A k \in DOMAIN configs :
            /\ configs[k].Name # <<>>
            /\ ParseKindArg(configs[k].Name) # <<>>
            /\ k = GVKString(ParseKindArg(configs[k].Name)[1])
            /\ k # <<>>
            /\ k # configs[k].Name
        /\ \A o \in RangeOrders(configs) :
            /\ Len(AdaptersFrom(configs, o, 1)) = Cardinality(DOMAIN configs)
            /\ AdaptersLogFrom(configs, o, 1) = <<>>
        /\ ret.op = "GetAllAdapters" =>
            /\ Len(ret.val) = Cardinality(DOMAIN configs)
            /\ klog = <<>>

\* C13 witness: GetAllAdapters returned two adapters for the two keys of a
\* mapping loaded from a batch that also had a rejected entry.
C13_Witness ==
    /\ pc = "idle"
    /\ ret.op = "GetAllAdapters"
    /\ Len(ret.val) = 2
    /\ Cardinality(DOMAIN configs) = 2
    /\ Rejected(batch) # {}

\* the identifiers carried by the adapters GetAllAdapters returns on map m
Listed(m) == {a.gvk : a \in UNION {Range(l) : l \in Listings(m)}}

\* C14: GetAdapter and GetAllAdapters agree between operations: the
\* identifiers GetAdapter finds are exactly the identifiers of the adapters
\* GetAllAdapters returns.
C14_LookupAgreesWithListing ==
    pc = "idle" =>
        /\ \A gvk \in GVKs : Adapter(configs, gvk) # <<>> <=> gvk \in Listed(configs)
        /\ ret.op = "GetAdapter" => (ret.val # <<>> <=> ret.arg \in Listed(configs))

\* C15: Load stores an entry only if its Name parses to a non-empty Kind
\* and a non-empty Version: an entry named ".." or ".v1.batch" is not
\* stored and is counted as an error, and no stored entry has an empty Kind.
C15_EmptyKindOrVersionRejected ==
    LoadReturned =>
        /\ \A k \in DOMAIN configs :
            /\ IdOf(configs[k]).Kind # <<>>
            /\ IdOf(configs[k]).Version # <<>>
        /\ \A i \in Named(batch, {DotDot, DotV1Batch}) :
            /\ \A k \in DOMAIN configs : configs[k] # batch[i]
            /\ ErrCount(ret.val) >= 1

\* C16: a Load emits one diagnostic and counts one error for each rejected
\* entry, never two: when it returns, the diagnostics are those of the
\* rejected entries, one each and in order, their number is the count of the
\* returned error (none for nil), and none comes from the second nil check
\* of the loop (lines 54-59), which no entry reaches.
C16_OneDiagnosticPerRejected ==
    /\ pc \in {"loop", "idle"} =>
        \A i \in DOMAIN errors : errors[i].err # "invalid GVK format in configuration"
    /\ pc = "loop" =>
        \A i \in DOMAIN klog : klog[i].err # "invalid GVK format in configuration"
    /\ LoadReturned =>
        /\ Len(klog) = ErrCount(ret.val)
        /\ Len(klog) = Cardinality(Rejected(batch))
        /\ klog = errors
        /\ \A i \in DOMAIN klog :
            /\ klog[i].name \in {batch[j].Name : j \in Rejected(batch)}
            /\ klog[i].err \in {"name is required", "invalid GVK format"}

\* C16 witness: a Load returned the count 2 after two diagnostics, one for an
\* empty Name and one for a malformed Name, with another entry stored.
C16_Witness ==
    /\ LoadReturned
    /\ ret.val = <<2>>
    /\ Len(klog) = 2
    /\ {klog[1].err, klog[2].err} = {"name is required", "invalid GVK format"}
    /\ configs # EmptyMap

====
